---- MODULE Spec2Model ----
(***************************************************************************)
(* Model of scripts/parse_kicad_python.py: the balanced-parenthesis        *)
(* scanner parse_kicad_sym, the field extractor parse_symbol_block, the    *)
(* one-pass resolve_inheritance and the merge loop of main.                *)
(*                                                                         *)
(* Text is a sequence of one-character strings; positions are 0-based as   *)
(* in the source (s[k] of the source is s[k+1] here).  A float is an exact *)
(* decimal [m, e] standing for m / 10^e; the sign of zero is not kept.     *)
(* A dict is the sequence of its values in insertion order.                *)
(***************************************************************************)
EXTENDS Integers, Sequences, FiniteSets, TLC

VARIABLES files, nread, pc, content, i, start, depth, block, symbols,
          all_symbols, ncalls

vars == <<files, nread, pc, content, i, start, depth, block, symbols,
          all_symbols, ncalls>>

\* ------------------------------------------------------------------ bounds

MaxPieces == 5
MaxFiles == 2
MaxSyms == 3
MaxCalls == 2

\* ------------------------------------------------------------------- text

None == <<>>

Min(S) == CHOOSE x \in S : \A y \in S : x <= y
Max(S) == CHOOSE x \in S : \A y \in S : x >= y

\* F applied to the value of e, which is worked out once.
Bind(e, F(_)) == CHOOSE v \in {F(x) : x \in {e}} : TRUE

\* s[a:b]
Slice(s, a, b) == SubSeq(s, a + 1, b)

RECURSIVE Concat(_)
Concat(ss) == IF ss = <<>> THEN <<>> ELSE Head(ss) \o Concat(Tail(ss))

IsSpace(c) == c \in {" ", "\n", "\t", "\r"}
IsDigit(c) == c \in {"0", "1", "2", "3", "4", "5", "6", "7", "8", "9"}
IsNumChar(c) == IsDigit(c) \/ c = "-" \/ c = "."
IsToken(c) == ~IsSpace(c)
IsNotQuote(c) == c # "\""

\* str.startswith(w, k), and a literal of a pattern at position k
StartsWith(s, w, k) ==
    /\ k >= 0
    /\ k + Len(w) <= Len(s)
    /\ \A j \in 1..Len(w) : s[k + j] = w[j]

\* Whether c is of the character class cls of a pattern
InClass(cls, c) ==
    CASE cls = "ws" -> IsSpace(c)
      [] cls = "tok" -> IsToken(c)
      [] cls = "num" -> IsNumChar(c)
      [] cls = "notquote" -> IsNotQuote(c)

\* The end of the longest run from k of characters of the class cls.
RunEnd(s, k, cls) ==
    LET stops == {j \in k..(Len(s) - 1) : ~InClass(cls, s[j + 1])}
    IN  IF stops = {} THEN Len(s) ELSE Min(stops)

\* The position after a run of at least one character of In from k, or -1.
Run(s, k, cls) ==
    IF k < Len(s) /\ InClass(cls, s[k + 1]) THEN RunEnd(s, k, cls) ELSE -1

\* ------------------------------------------------------------- patterns

kwSymbol == <<"(", "s", "y", "m", "b", "o", "l">>
kwPin == <<"(", "p", "i", "n">>
kwAt == <<"(", "a", "t">>
kwName == <<"(", "n", "a", "m", "e">>
kwNumber == <<"(", "n", "u", "m", "b", "e", "r">>
kwRectangle == <<"(", "r", "e", "c", "t", "a", "n", "g", "l", "e">>
kwStart == <<"(", "s", "t", "a", "r", "t">>
kwEnd == <<"(", "e", "n", "d">>
kwPolyline == <<"(", "p", "o", "l", "y", "l", "i", "n", "e">>
kwPts == <<"(", "p", "t", "s">>
kwXy == <<"(", "x", "y">>
kwExtends == <<"(", "e", "x", "t", "e", "n", "d", "s">>
LP == <<"(">>
RP == <<")">>
SP == <<" ">>

\* The items of a pattern: a literal, \s+, [^\s]+, [-\d.]+ and "([^"]+)".
L(w) == <<"lit", w>>
WS == <<"ws">>
TOK == <<"tok">>
NUM == <<"num">>
QUOTED == <<"quoted">>

\* The position after item it matched at k, or -1.  In every pattern below
\* a \s+, [^\s]+, [-\d.]+ or [^"]+ is followed by a character outside its
\* class, so its longest run is its only match.
ItemEnd(s, k, it) ==
    CASE it[1] = "lit" -> IF StartsWith(s, it[2], k) THEN k + Len(it[2]) ELSE -1
      [] it[1] = "ws" -> Run(s, k, "ws")
      [] it[1] = "tok" -> Run(s, k, "tok")
      [] it[1] = "num" -> Run(s, k, "num")
      [] it[1] = "quoted" ->
            IF StartsWith(s, <<"\"">>, k)
            THEN Bind(Run(s, k + 1, "notquote"),
                      LAMBDA e : IF e >= 0 /\ e < Len(s) THEN e + 1 ELSE -1)
            ELSE -1

\* The items j.. of pat matched from k: the positions where they start and,
\* last, the position after the match, or -1 last when there is no match.
RECURSIVE Bounds(_, _, _, _)
Bounds(s, k, pat, j) ==
    IF j > Len(pat) THEN <<k>>
    ELSE Bind(ItemEnd(s, k, pat[j]),
              LAMBDA e : IF e < 0 THEN <<-1>> ELSE <<k>> \o Bounds(s, e, pat, j + 1))

Match(s, k, pat) == Bounds(s, k, pat, 1)
End(b) == b[Len(b)]
Group(s, b, j) == Slice(s, b[j], b[j + 1])
\* What the quotes of a QUOTED item j hold
Inside(s, b, j) == Slice(s, b[j] + 1, b[j + 1] - 1)

\* The least p >= from where pat matches, or -1: re.search, and a lazy .*?
\* before pat when nothing has to follow pat.
Find(s, from, pat) ==
    LET hits == {p \in from..(Len(s) - 1) : End(Match(s, p, pat)) >= 0}
    IN  IF from < 0 \/ hits = {} THEN -1 ELSE Min(hits)

\* r'\(symbol\s+"([^"]+)"'
symbol_regex == <<L(kwSymbol), WS, QUOTED>>
\* \(pin\s+([^\s]+)\s+[^\s]+ : pin_regex up to its second token
pin_head == <<L(kwPin), WS, TOK, WS, TOK>>
\* \(at\s+([-\d.]+)\s+([-\d.]+)(?:\s+([-\d.]+))?\) with and without the
\* optional group
at_rotated == <<L(kwAt), WS, NUM, WS, NUM, WS, NUM, L(RP)>>
at_plain == <<L(kwAt), WS, NUM, WS, NUM, L(RP)>>
\* \(name\s+"([^"]+)"\) and \(number\s+"([^"]+)"
name_group == <<L(kwName), WS, QUOTED, L(RP)>>
number_group == <<L(kwNumber), WS, QUOTED>>
\* \(rectangle\s+\(start\s+([-\d.]+)\s+([-\d.]+)\)\s+\(end\s+([-\d.]+)\s+([-\d.]+)\)
rect_regex ==
    <<L(kwRectangle), WS, L(kwStart), WS, NUM, WS, NUM, L(RP), WS,
      L(kwEnd), WS, NUM, WS, NUM, L(RP)>>
\* \(polyline\s+\(pts : polyline_regex up to its group
polyline_head == <<L(kwPolyline), WS, L(kwPts)>>
\* \(xy\s+([-\d.]+)\s+([-\d.]+)\)
xy_regex == <<L(kwXy), WS, NUM, WS, NUM, L(RP)>>
\* \(extends\s+"([^"]+)"\)
extends_regex == <<L(kwExtends), WS, QUOTED, L(RP)>>

\* The position group at q: the rotated form is tried first; the two forms
\* differ in the character after the second number, so at most one matches.
AtGroup(s, q) ==
    Bind(Match(s, q, at_rotated),
         LAMBDA b :
            IF End(b) >= 0
            THEN [end |-> End(b), g2 |-> Group(s, b, 3), g3 |-> Group(s, b, 5),
                  g4 |-> Group(s, b, 7)]
            ELSE Bind(Match(s, q, at_plain),
                      LAMBDA c :
                         IF End(c) >= 0
                         THEN [end |-> End(c), g2 |-> Group(s, c, 3),
                               g3 |-> Group(s, c, 5), g4 |-> None]
                         ELSE [end |-> -1]))

\* pin_regex from \(at on, \(at at q: the lazy .*? before \(name and the
\* one before \(number each stop at the first place where the rest matches
\* (a later \(name leaves no more places for \(number than the first).
PinTail(s, q) ==
    Bind(AtGroup(s, q),
         LAMBDA at :
            IF at.end < 0 THEN [end |-> -1]
            ELSE Bind(Find(s, at.end, name_group),
                      LAMBDA n :
                         IF n < 0 THEN [end |-> -1]
                         ELSE Bind(Match(s, n, name_group),
                                   LAMBDA nm :
                                      Bind(Find(s, End(nm), number_group),
                                           LAMBDA r :
                                              IF r < 0 THEN [end |-> -1]
                                              ELSE Bind(Match(s, r, number_group),
                                                        LAMBDA nb :
                                                           [end |-> End(nb),
                                                            g2 |-> at.g2,
                                                            g3 |-> at.g3,
                                                            g4 |-> at.g4,
                                                            g5 |-> Inside(s, nm, 3),
                                                            g6 |-> Inside(s, nb, 3)])))))

\* Where \(at is taken, given the second token [a, t) of the pin: the
\* greedy [^\s]+\s* takes the whole token and the spaces after it and the
\* lazy .*? then tries every later place, the nearest first; only when none
\* matches does the token give back characters, the last first, never its
\* first one.
AtPlace(s, a, t) ==
    LET late == {q \in RunEnd(s, t, "ws")..(Len(s) - 1) : PinTail(s, q).end >= 0}
        early == {q \in (a + 1)..(t - 1) : PinTail(s, q).end >= 0}
    IN  IF late # {} THEN Min(late)
        ELSE IF early # {} THEN Max(early) ELSE -1

\* pin_regex at p: the end of the match and its six groups, or end -1.
pin_regex(s, p) ==
    Bind(Match(s, p, pin_head),
         LAMBDA h :
            IF End(h) < 0 THEN [end |-> -1]
            ELSE Bind(AtPlace(s, h[5], h[6]),
                      LAMBDA q :
                         IF q < 0 THEN [end |-> -1]
                         ELSE Bind(PinTail(s, q),
                                   LAMBDA m : [g1 |-> Group(s, h, 3)] @@ m)))

\* pin_regex.finditer(block): the matches from pos on, from left to right,
\* each search starting where the match before it ended.
RECURSIVE PinMatches(_, _)
PinMatches(s, pos) ==
    LET hits == {p \in pos..(Len(s) - 1) : pin_regex(s, p).end >= 0}
    IN  IF hits = {} THEN <<>>
        ELSE Bind(pin_regex(s, Min(hits)), LAMBDA m : <<m>> \o PinMatches(s, m.end))

\* \(polyline\s+\(pts(.*?)\)\) at p: the group runs to the first "))".
polyline_regex(s, p) ==
    Bind(End(Match(s, p, polyline_head)),
         LAMBDA a :
            Bind(Find(s, a, <<L(<<")", ")">>)>>),
                 LAMBDA c :
                    IF c < 0 THEN [end |-> -1]
                    ELSE [end |-> c + 2, group |-> Slice(s, a, c)]))

XyAt(s, p) ==
    Bind(Match(s, p, xy_regex),
         LAMBDA b :
            IF End(b) < 0 THEN [end |-> -1]
            ELSE [end |-> End(b), x |-> Group(s, b, 3), y |-> Group(s, b, 5)])

\* polyline_regex.findall(block)
RECURSIVE PolylineMatches(_, _)
PolylineMatches(s, pos) ==
    LET hits == {p \in pos..(Len(s) - 1) : polyline_regex(s, p).end >= 0}
    IN  IF hits = {} THEN <<>>
        ELSE Bind(polyline_regex(s, Min(hits)),
                  LAMBDA m : <<m>> \o PolylineMatches(s, m.end))

\* xy_regex.findall(pl)
RECURSIVE XyMatches(_, _)
XyMatches(s, pos) ==
    LET hits == {p \in pos..(Len(s) - 1) : XyAt(s, p).end >= 0}
    IN  IF hits = {} THEN <<>>
        ELSE Bind(XyAt(s, Min(hits)), LAMBDA m : <<m>> \o XyMatches(s, m.end))

\* ----------------------------------------------------------------- floats

DigitVal(c) ==
    CASE c = "0" -> 0 [] c = "1" -> 1 [] c = "2" -> 2 [] c = "3" -> 3
      [] c = "4" -> 4 [] c = "5" -> 5 [] c = "6" -> 6 [] c = "7" -> 7
      [] c = "8" -> 8 [] c = "9" -> 9

RECURSIVE Pow10(_)
Pow10(n) == IF n = 0 THEN 1 ELSE 10 * Pow10(n - 1)

\* The digits d[1..n] read as a number
RECURSIVE DigitsVal(_, _)
DigitsVal(d, n) == IF n = 0 THEN 0 ELSE DigitsVal(d, n - 1) * 10 + DigitVal(d[n])

\* m / 10^e without the zeros a decimal point was followed by in vain
RECURSIVE Normal(_, _)
Normal(m, e) ==
    IF e > 0 /\ m % 10 = 0 THEN Normal(m \div 10, e - 1) ELSE [m |-> m, e |-> e]

Unsigned(t) == IF t # <<>> /\ t[1] = "-" THEN Tail(t) ELSE t

\* float(t) raises ValueError unless t, a token of [-\d.]+, is an optional
\* sign, digits and at most one point, with at least one digit.
ValueError(t) ==
    LET u == Unsigned(t)
    IN  \/ \E k \in 1..Len(u) : u[k] = "-"
        \/ Cardinality({k \in 1..Len(u) : u[k] = "."}) > 1
        \/ ~\E k \in 1..Len(u) : IsDigit(u[k])

float(t) ==
    LET u == Unsigned(t)
        dots == {k \in 1..Len(u) : u[k] = "."}
        frac == IF dots = {} THEN 0 ELSE Len(u) - Min(dots)
        digits == SelectSeq(u, IsDigit)
        mag == Bind(DigitsVal(digits, Len(digits)), LAMBDA m : Normal(m, frac))
    IN  IF t[1] = "-" THEN [m |-> -mag.m, e |-> mag.e] ELSE mag

Zero == [m |-> 0, e |-> 0]
Neg(a) == [m |-> -a.m, e |-> a.e]
Less(a, b) == a.m * Pow10(b.e) < b.m * Pow10(a.e)
\* min(a, b) and max(a, b) of the source: the first argument unless the
\* second is strictly smaller (larger).
fmin(a, b) == IF Less(b, a) THEN b ELSE a
fmax(a, b) == IF Less(a, b) THEN b ELSE a

\* ------------------------------------------------------ parse_symbol_block

\* The pin with its y coordinate kept as written
PinUnflipped(m) ==
    [electrical_type |-> m.g1,
     x |-> float(m.g2),
     y |-> float(m.g3),
     orientation |-> IF m.g4 # None THEN float(m.g4) ELSE Zero,
     name |-> m.g5,
     number |-> m.g6]

\* One pin of the list, built from a match of pin_regex
Pin(m) ==
    [electrical_type |-> m.g1,
     x |-> float(m.g2),
     y |-> Neg(float(m.g3)),
     orientation |-> IF m.g4 # None THEN float(m.g4) ELSE Zero,
     name |-> m.g5,
     number |-> m.g6]

\* re.search of the rectangle pattern: its four groups, or None
rect_m(s) ==
    Bind(Find(s, 0, rect_regex),
         LAMBDA p :
            IF p < 0 THEN None
            ELSE Bind(Match(s, p, rect_regex),
                      LAMBDA b : <<Group(s, b, 5), Group(s, b, 7),
                                   Group(s, b, 12), Group(s, b, 14)>>))

RectBbox(g) ==
    [minX |-> fmin(float(g[1]), float(g[3])),
     maxX |-> fmax(float(g[1]), float(g[3])),
     minY |-> fmin(float(g[2]), float(g[4])),
     maxY |-> fmax(float(g[2]), float(g[4]))]

\* The running min/max over the points pts[k..]; acc is None while minX is
\* still inf.
RECURSIVE Envelope(_, _, _)
Envelope(pts, k, acc) ==
    IF k > Len(pts) THEN acc
    ELSE Bind([x |-> float(pts[k].x), y |-> float(pts[k].y)],
              LAMBDA pt :
                 Bind(IF acc = None
                      THEN [minX |-> pt.x, maxX |-> pt.x, minY |-> pt.y, maxY |-> pt.y]
                      ELSE [minX |-> fmin(acc.minX, pt.x), maxX |-> fmax(acc.maxX, pt.x),
                            minY |-> fmin(acc.minY, pt.y), maxY |-> fmax(acc.maxY, pt.y)],
                      LAMBDA next : Envelope(pts, k + 1, next)))

\* The xy matches of every polyline group, in the order the two nested
\* loops of the source visit them.
RECURSIVE PolylinePoints(_, _)
PolylinePoints(pls, k) ==
    IF k > Len(pls) THEN <<>>
    ELSE Bind(pls[k].group, LAMBDA pl : XyMatches(pl, 0))
         \o PolylinePoints(pls, k + 1)

PolylineXy(s) ==
    Bind(PolylineMatches(s, 0), LAMBDA pls : PolylinePoints(pls, 1))

\* re.search of the extends pattern: its group, or None
Extends(s) ==
    Bind(Find(s, 0, extends_regex),
         LAMBDA p :
            IF p < 0 THEN None
            ELSE Bind(Match(s, p, extends_regex), LAMBDA b : Inside(s, b, 3)))

\* What parse_symbol_block does with block s: it raises ValueError,
\* uncaught, when one float() does (those of the pins, then those of the
\* rectangle if there is one, else those of the polyline points), and
\* returns the entry otherwise.
Parsed(symbol_id, s) ==
    Bind(<<PinMatches(s, 0), rect_m(s)>>,
         LAMBDA f :
            Bind(IF f[2] # None THEN <<>> ELSE PolylineXy(s),
                 LAMBDA pts :
                    IF \/ \E k \in 1..Len(f[1]) :
                             \/ ValueError(f[1][k].g2)
                             \/ ValueError(f[1][k].g3)
                             \/ f[1][k].g4 # None /\ ValueError(f[1][k].g4)
                       \/ f[2] # None /\ \E k \in 1..4 : ValueError(f[2][k])
                       \/ \E k \in 1..Len(pts) :
                             ValueError(pts[k].x) \/ ValueError(pts[k].y)
                    THEN [raised |-> TRUE]
                    ELSE [raised |-> FALSE,
                          entry |->
                             [id |-> symbol_id,
                              pins |-> [k \in 1..Len(f[1]) |-> Pin(f[1][k])],
                              bbox |-> IF f[2] # None THEN RectBbox(f[2])
                                       ELSE Envelope(pts, 1, None),
                              extends |-> Extends(s),
                              kicad_sym_raw |-> s]]))

parse_symbol_block(symbol_id, s) == Parsed(symbol_id, s).entry

\* ------------------------------------------------------------------ dicts

Keys(d) == {d[k].id : k \in 1..Len(d)}
Get(d, id) == d[CHOOSE k \in 1..Len(d) : d[k].id = id]

\* d[id] = v: a present key keeps its place, a new key goes last.
Put(d, id, v) ==
    IF id \in Keys(d)
    THEN [k \in 1..Len(d) |-> IF d[k].id = id THEN v ELSE d[k]]
    ELSE Append(d, v)

\* all_symbols.update(symbols), from the k-th entry of other on
RECURSIVE UpdateFrom(_, _, _)
UpdateFrom(d, other, k) ==
    IF k > Len(other) THEN d
    ELSE Bind(Put(d, other[k].id, other[k]), LAMBDA n : UpdateFrom(n, other, k + 1))

\* A merge that keeps the entries d already has
update_missing(d, other) == d \o SelectSeq(other, LAMBDA e : e.id \notin Keys(d))

update(d, other) == UpdateFrom(d, other, 1)

\* ---------------------------------------------------- resolve_inheritance

\* A loop body that puts the base's pins after the entry's own
ResolveEntryExtend(d, k) ==
    IF d[k].extends # None /\ d[k].extends \in Keys(d)
    THEN Bind(Get(d, d[k].extends),
              LAMBDA base :
                 [d EXCEPT ![k] =
                    [id |-> d[k].id,
                     pins |-> d[k].pins \o base.pins,
                     bbox |-> IF d[k].bbox = None THEN base.bbox ELSE d[k].bbox,
                     extends |-> d[k].extends,
                     kicad_sym_raw |-> d[k].kicad_sym_raw]])
    ELSE d

\* A loop body that takes the base's fields whatever the entry has
ResolveEntryOverwrite(d, k) ==
    IF d[k].extends # None /\ d[k].extends \in Keys(d)
    THEN Bind(Get(d, d[k].extends),
              LAMBDA base :
                 [d EXCEPT ![k] =
                    [id |-> d[k].id,
                     pins |-> base.pins,
                     bbox |-> base.bbox,
                     extends |-> d[k].extends,
                     kicad_sym_raw |-> d[k].kicad_sym_raw]])
    ELSE d

\* The body of the loop for the k-th entry, on the dict as it is by then.
ResolveEntry(d, k) ==
    IF d[k].extends # None /\ d[k].extends \in Keys(d)
    THEN Bind(Get(d, d[k].extends),
              LAMBDA base :
                 [d EXCEPT ![k] =
                    [id |-> d[k].id,
                     pins |-> IF d[k].pins = <<>> THEN base.pins ELSE d[k].pins,
                     bbox |-> IF d[k].bbox = None THEN base.bbox ELSE d[k].bbox,
                     extends |-> d[k].extends,
                     kicad_sym_raw |-> d[k].kicad_sym_raw]])
    ELSE d

RECURSIVE ResolveFrom(_, _)
ResolveFrom(d, k) ==
    IF k > Len(d) THEN d
    ELSE Bind(ResolveEntry(d, k), LAMBDA n : ResolveFrom(n, k + 1))

resolve_inheritance(d) == ResolveFrom(d, 1)

\* -------------------------------------------------------- parse_kicad_sym

\* One iteration of the inner loop on [i, depth, done]; done is the break.
InnerStep(s, st) ==
    IF s[st.i + 1] = "("
    THEN [i |-> st.i + 1, depth |-> st.depth + 1, done |-> FALSE]
    ELSE IF s[st.i + 1] = ")"
         THEN IF st.depth - 1 = 0
              THEN [i |-> st.i + 1, depth |-> 0, done |-> TRUE]
              ELSE [i |-> st.i + 1, depth |-> st.depth - 1, done |-> FALSE]
         ELSE [i |-> st.i + 1, depth |-> st.depth, done |-> FALSE]

\* At most n iterations of the inner loop
RECURSIVE InnerRun(_, _, _)
InnerRun(s, st, n) ==
    IF n = 0 \/ st.done \/ st.i >= Len(s) THEN st
    ELSE Bind(InnerStep(s, st), LAMBDA t : InnerRun(s, t, n - 1))

\* The inner loop to its end, run in stretches of 16 iterations (the
\* stretches only keep the evaluation shallow).
RECURSIVE InnerLoop(_, _)
InnerLoop(s, st) ==
    IF st.done \/ st.i >= Len(s) THEN st
    ELSE Bind(InnerRun(s, st, 16), LAMBDA t : InnerLoop(s, t))

\* A scanner that stops at a block without identifier
ResumeBreak(s, after) == Len(s)

\* Where scanning goes on after a block without an identifier (continue).
Resume(s, after) == after

\* Lines 60-68 for the block [from, e.i) the inner loop ended with e.
Emit(s, st, e) ==
    Bind(Slice(s, st.i, e.i),
         LAMBDA b :
            Bind(Match(b, 0, symbol_regex),
                 LAMBDA m :
                    IF End(m) < 0
                    THEN [i |-> Resume(s, e.i), start |-> st.i, depth |-> e.depth,
                          block |-> b, symbols |-> st.symbols, raised |-> FALSE]
                    ELSE Bind(Parsed(Inside(b, m, 3), b),
                              LAMBDA r :
                                 [i |-> e.i, start |-> st.i, depth |-> e.depth,
                                  block |-> b,
                                  symbols |-> IF r.raised THEN st.symbols
                                              ELSE Put(st.symbols, r.entry.id, r.entry),
                                  raised |-> r.raised])))

\* One iteration of the outer loop on the locals st = [i, start, depth,
\* block, symbols, raised].
Iterate(s, st) ==
    IF StartsWith(s, kwSymbol, st.i)
    THEN Bind(InnerLoop(s, [i |-> st.i, depth |-> 0, done |-> FALSE]),
              LAMBDA e : Emit(s, st, e))
    ELSE [st EXCEPT !.i = @ + 1]

Locals0 == [i |-> 0, start |-> 0, depth |-> 0, block |-> <<>>,
            symbols |-> <<>>, raised |-> FALSE]

RECURSIVE Loop(_, _)
Loop(s, st) ==
    IF st.i < Len(s) /\ ~st.raised
    THEN Bind(Iterate(s, st), LAMBDA n : Loop(s, n))
    ELSE st

\* parse_kicad_sym(content): the locals at its return or at the raise
parse_kicad_sym(s) == Bind(s, LAMBDA t : Loop(t, Locals0))

\* ----------------------------------------------------------------- inputs

\*  "X"
QuoteX ==
    <<" ", "\"", "X", "\"">>

\*  ""
QuoteEmpty ==
    <<" ", "\"", "\"">>

\* (symbol "R_base" (rectangle (start 0 0) (end 10 10)))
BlockRBase ==
    <<"(", "s", "y", "m", "b", "o", "l", " ", "\"", "R", "_", "b", "a", "s",
      "e", "\"", " ", "(", "r", "e", "c", "t", "a", "n", "g", "l", "e", " ",
      "(", "s", "t", "a", "r", "t", " ", "0", " ", "0", ")", " ", "(", "e",
      "n", "d", " ", "1", "0", " ", "1", "0", ")", ")", ")">>

\* (symbol "R" (extends "R_base") (pin passive (at 0 5) (name "1") (number "1")))
BlockRSpec ==
    <<"(", "s", "y", "m", "b", "o", "l", " ", "\"", "R", "\"", " ", "(",
      "e", "x", "t", "e", "n", "d", "s", " ", "\"", "R", "_", "b", "a", "s",
      "e", "\"", ")", " ", "(", "p", "i", "n", " ", "p", "a", "s", "s", "i",
      "v", "e", " ", "(", "a", "t", " ", "0", " ", "5", ")", " ", "(", "n",
      "a", "m", "e", " ", "\"", "1", "\"", ")", " ", "(", "n", "u", "m",
      "b", "e", "r", " ", "\"", "1", "\"", ")", ")", ")">>

\* (symbol "R" (extends "R_base") (pin passive line (at 0 5) (name "1") (number "1")))
BlockRLine ==
    <<"(", "s", "y", "m", "b", "o", "l", " ", "\"", "R", "\"", " ", "(",
      "e", "x", "t", "e", "n", "d", "s", " ", "\"", "R", "_", "b", "a", "s",
      "e", "\"", ")", " ", "(", "p", "i", "n", " ", "p", "a", "s", "s", "i",
      "v", "e", " ", "l", "i", "n", "e", " ", "(", "a", "t", " ", "0", " ",
      "5", ")", " ", "(", "n", "a", "m", "e", " ", "\"", "1", "\"", ")",
      " ", "(", "n", "u", "m", "b", "e", "r", " ", "\"", "1", "\"", ")",
      ")", ")">>

\* (symbol "R" (polyline (pts (xy 0 0) (xy 5 5))))
BlockRPoly ==
    <<"(", "s", "y", "m", "b", "o", "l", " ", "\"", "R", "\"", " ", "(",
      "p", "o", "l", "y", "l", "i", "n", "e", " ", "(", "p", "t", "s", " ",
      "(", "x", "y", " ", "0", " ", "0", ")", " ", "(", "x", "y", " ", "5",
      " ", "5", ")", ")", ")", ")">>

\* (symbol "R"\n(polyline\n(pts\n(xy 0 0) (xy 5 5)\n)\n(stroke (width 0))))
BlockRPolyLines ==
    <<"(", "s", "y", "m", "b", "o", "l", " ", "\"", "R", "\"", "\n", "(",
      "p", "o", "l", "y", "l", "i", "n", "e", "\n", "(", "p", "t", "s",
      "\n", "(", "x", "y", " ", "0", " ", "0", ")", " ", "(", "x", "y", " ",
      "5", " ", "5", ")", "\n", ")", "\n", "(", "s", "t", "r", "o", "k",
      "e", " ", "(", "w", "i", "d", "t", "h", " ", "0", ")", ")", ")", ")">>

\* (symbol "R" (polyline (pts (xy 2 3))))
BlockROnePoint ==
    <<"(", "s", "y", "m", "b", "o", "l", " ", "\"", "R", "\"", " ", "(",
      "p", "o", "l", "y", "l", "i", "n", "e", " ", "(", "p", "t", "s", " ",
      "(", "x", "y", " ", "2", " ", "3", ")", ")", ")", ")">>

\* (symbol "R_base" (rectangle (start - 0) (end 1 1)))
BlockBad ==
    <<"(", "s", "y", "m", "b", "o", "l", " ", "\"", "R", "_", "b", "a", "s",
      "e", "\"", " ", "(", "r", "e", "c", "t", "a", "n", "g", "l", "e", " ",
      "(", "s", "t", "a", "r", "t", " ", "-", " ", "0", ")", " ", "(", "e",
      "n", "d", " ", "1", " ", "1", ")", ")", ")">>

\*  (extends "
ExtendsOpen ==
    <<" ", "(", "e", "x", "t", "e", "n", "d", "s", " ", "\"">>

\* ")
ExtendsClose ==
    <<"\"", ")">>

\*  (pin passive line (at 1 2) (name "
PinOpen ==
    <<" ", "(", "p", "i", "n", " ", "p", "a", "s", "s", "i", "v", "e", " ",
      "l", "i", "n", "e", " ", "(", "a", "t", " ", "1", " ", "2", ")", " ",
      "(", "n", "a", "m", "e", " ", "\"">>

\* ") (number "1"))
PinClose ==
    <<"\"", ")", " ", "(", "n", "u", "m", "b", "e", "r", " ", "\"", "1",
      "\"", ")", ")">>

\*  (rectangle (start 0 0) (end
RectOpen ==
    <<" ", "(", "r", "e", "c", "t", "a", "n", "g", "l", "e", " ", "(", "s",
      "t", "a", "r", "t", " ", "0", " ", "0", ")", " ", "(", "e", "n", "d",
      " ">>

\* (symbol (property "x"))
BlockNoId ==
    <<"(", "s", "y", "m", "b", "o", "l", " ", "(", "p", "r", "o", "p", "e",
      "r", "t", "y", " ", "\"", "x", "\"", ")", ")">>

\* Texts for the scanner: up to MaxPieces pieces, each the opening marker,
\* a quoted identifier, an empty pair of quotes or one parenthesis.
ScanPieces == {kwSymbol, QuoteX, QuoteEmpty, LP, RP}

ScanTexts(max) ==
    {Concat(ps) : ps \in UNION {[1..n -> ScanPieces] : n \in 0..max}}

\* Library files for main: one symbol block each, or two on two lines.
Libs ==
    {BlockRBase, BlockRSpec, BlockRLine, BlockRPoly, BlockRPolyLines,
     BlockROnePoint, BlockBad,
     BlockRBase \o <<"\n">> \o BlockRLine,
     BlockNoId \o <<"\n">> \o BlockRPoly \o <<"\n">> \o BlockRBase}

FileLists(max) == UNION {[1..n -> Libs] : n \in 1..max}

\* Indexes for resolve_inheritance: the entries parse_symbol_block makes of
\* the blocks of symbols Names[1] .. Names[n], in that order; each block
\* extends nothing (0), one of the n symbols or a symbol not in the index
\* (n + 1), and has its own pin, its own rectangle, both or neither.
Names == <<"A", "B", "C", "D", "E", "F">>
Digits == <<"1", "2", "3", "4", "5", "6">>
Kinds == {"bare", "pins", "bbox", "full"}

SymBlock(k, ext, kind) ==
    kwSymbol \o <<" ", "\"", Names[k], "\"">>
    \o (IF ext # 0 THEN ExtendsOpen \o <<Names[ext]>> \o ExtendsClose ELSE <<>>)
    \o (IF kind \in {"pins", "full"}
        THEN PinOpen \o <<Names[k]>> \o PinClose ELSE <<>>)
    \o (IF kind \in {"bbox", "full"}
        THEN RectOpen \o <<Digits[k], " ", Digits[k], ")", ")">> ELSE <<>>)
    \o RP

SymEntry == [k \in 1..MaxSyms, ext \in 0..(MaxSyms + 1), kind \in Kinds |->
                parse_symbol_block(<<Names[k]>>, SymBlock(k, ext, kind))]

\* The index of n entries chosen by c: for each its extends and its kind
IndexOf(n, c) == [k \in 1..n |-> SymEntry[k, c[k][1], c[k][2]]]

\* ---------------------------------------------------------------- actions

Locals == [i |-> i, start |-> start, depth |-> depth, block |-> block,
           symbols |-> symbols, raised |-> FALSE]

SetLocals(st) ==
    /\ i' = st.i
    /\ start' = st.start
    /\ depth' = st.depth
    /\ block' = st.block
    /\ symbols' = st.symbols

\* main, lines 148-151: the next file is read and parse_kicad_sym entered.
Read ==
    /\ pc = "open"
    /\ nread < Len(files)
    /\ content' = files[nread + 1]
    /\ SetLocals(Locals0)
    /\ pc' = "scan"
    /\ UNCHANGED <<files, nread, all_symbols, ncalls>>

\* Outer loop, else branch: a character outside any block is passed over.
SkipChar ==
    /\ pc = "scan"
    /\ i < Len(content)
    /\ ~StartsWith(content, kwSymbol, i)
    /\ \E st \in {Iterate(content, Locals)} : SetLocals(st)
    /\ UNCHANGED <<files, nread, pc, content, all_symbols, ncalls>>

\* Outer loop at an opening marker, the block has no identifier: continue.
SkipBlock ==
    /\ pc = "scan"
    /\ i < Len(content)
    /\ StartsWith(content, kwSymbol, i)
    /\ \E st \in {Iterate(content, Locals)} :
          /\ End(Match(st.block, 0, symbol_regex)) < 0
          /\ SetLocals(st)
    /\ UNCHANGED <<files, nread, pc, content, all_symbols, ncalls>>

\* Outer loop at an opening marker, the block has an identifier and
\* parse_symbol_block returns: the entry is stored under the identifier.
IndexBlock ==
    /\ pc = "scan"
    /\ i < Len(content)
    /\ StartsWith(content, kwSymbol, i)
    /\ \E st \in {Iterate(content, Locals)} :
          /\ End(Match(st.block, 0, symbol_regex)) >= 0
          /\ ~st.raised
          /\ SetLocals(st)
    /\ UNCHANGED <<files, nread, pc, content, all_symbols, ncalls>>

\* Outer loop at an opening marker, parse_symbol_block raises ValueError:
\* nothing catches it, the run ends.
RaiseBlock ==
    /\ pc = "scan"
    /\ i < Len(content)
    /\ StartsWith(content, kwSymbol, i)
    /\ \E st \in {Iterate(content, Locals)} :
          /\ st.raised
          /\ SetLocals(st)
    /\ pc' = "error"
    /\ UNCHANGED <<files, nread, content, all_symbols, ncalls>>

\* The outer loop ends: parse_kicad_sym returns symbols.
Return ==
    /\ pc = "scan"
    /\ i >= Len(content)
    /\ pc' = "returned"
    /\ UNCHANGED <<files, nread, content, i, start, depth, block, symbols,
                   all_symbols, ncalls>>

\* main, line 152: all_symbols.update(symbols)
Merge ==
    /\ pc = "returned"
    /\ all_symbols' = update(all_symbols, symbols)
    /\ nread' = nread + 1
    /\ pc' = "open"
    /\ UNCHANGED <<files, content, i, start, depth, block, symbols, ncalls>>

\* main, line 156: resolve_inheritance(all_symbols), once every file is in.
Resolve ==
    /\ pc = "open"
    /\ nread = Len(files)
    /\ all_symbols' = resolve_inheritance(all_symbols)
    /\ ncalls' = ncalls + 1
    /\ pc' = "done"
    /\ UNCHANGED <<files, nread, content, i, start, depth, block, symbols>>

\* A call of resolve_inheritance on an index, at most MaxCalls in a row.
Call ==
    /\ pc = "index"
    /\ ncalls < MaxCalls
    /\ all_symbols' = resolve_inheritance(all_symbols)
    /\ ncalls' = ncalls + 1
    /\ UNCHANGED <<files, nread, pc, content, i, start, depth, block, symbols>>

\* --------------------------------------------------------- specifications

Idle ==
    /\ nread = 0
    /\ content = <<>>
    /\ i = 0
    /\ start = 0
    /\ depth = 0
    /\ block = <<>>
    /\ symbols = <<>>
    /\ ncalls = 0

\* main on a list of library files
Init ==
    /\ files \in FileLists(MaxFiles)
    /\ pc = "open"
    /\ all_symbols = <<>>
    /\ Idle

Next == Read \/ SkipChar \/ SkipBlock \/ IndexBlock \/ RaiseBlock \/ Return
        \/ Merge \/ Resolve

Spec == Init /\ [][Next]_vars

\* parse_kicad_sym on one text
InitScan ==
    /\ files = <<>>
    /\ pc = "scan"
    /\ all_symbols = <<>>
    /\ nread = 0
    /\ content \in ScanTexts(MaxPieces)
    /\ i = 0
    /\ start = 0
    /\ depth = 0
    /\ block = <<>>
    /\ symbols = <<>>
    /\ ncalls = 0

NextScan == SkipChar \/ SkipBlock \/ IndexBlock \/ Return

SpecScan == InitScan /\ [][NextScan]_vars

\* resolve_inheritance called on an index
InitResolve ==
    /\ files = <<>>
    /\ pc = "index"
    /\ \E n \in 1..MaxSyms : \E c \in [1..n -> (0..(n + 1)) \X Kinds] :
          all_symbols = IndexOf(n, c)
    /\ Idle

NextResolve == Call

SpecResolve == InitResolve /\ [][NextResolve]_vars

\* ----------------------------------------------------------------- claims

\* How many times character c occurs in s
Count(s, c) == Cardinality({k \in 1..Len(s) : s[k] = c})

\* The position after the parenthesis that closes the one at p, or Len(s)
\* when nothing closes it.
CloseOf(s, p) ==
    LET closes == {e \in (p + 1)..Len(s) :
                      /\ s[e] = ")"
                      /\ Count(SubSeq(s, p + 1, e), "(") = Count(SubSeq(s, p + 1, e), ")")}
    IN  IF closes = {} THEN Len(s) ELSE Min(closes)

Closed(s, p) == CloseOf(s, p) > p /\ Count(Slice(s, p, CloseOf(s, p)), "(")
                                      = Count(Slice(s, p, CloseOf(s, p)), ")")

\* An opening marker at p that lies in no block that began before it
RECURSIVE TopLevel(_, _)
TopLevel(s, p) ==
    /\ StartsWith(s, kwSymbol, p)
    /\ \A q \in 0..(p - 1) : TopLevel(s, q) => CloseOf(s, q) <= p

BlockAt(s, p) == Slice(s, p, CloseOf(s, p))
HasId(s, p) == End(Match(BlockAt(s, p), 0, symbol_regex)) >= 0
IdAt(s, p) == Inside(BlockAt(s, p), Match(BlockAt(s, p), 0, symbol_regex), 3)
Places(s) == 0..(Len(s) - 1)

\* C1: every block the scanner hands to identifier matching starts at an
\* opening marker of the text, ends at the parenthesis that brings the depth
\* back to 0 and holds as many "(" as ")".
C1_EmittedBlockBalanced ==
    block # <<>> =>
        /\ StartsWith(content, kwSymbol, start)
        /\ block = Slice(content, start, start + Len(block))
        /\ block[Len(block)] = ")"
        /\ depth = 0
        /\ Count(block, "(") = Count(block, ")")

\* C2: a block whose depth never returns to 0 before the end of the text is
\* dropped: the mapping holds no entry made of it.
C2_UnterminatedDropped ==
    (block # <<>> /\ depth # 0) =>
        \A k \in 1..Len(symbols) : symbols[k].kicad_sym_raw # block

\* C10: a block without a non-empty quoted identifier right after its
\* marker adds no entry, no entry has an empty identifier, every entry is
\* made of a top-level block, and every top-level block with an identifier
\* that begins after the end of the skipped one is in the returned mapping.
C10_NoIdSkipped ==
    pc = "returned" =>
        /\ \A k \in 1..Len(symbols) :
              /\ symbols[k].id # <<>>
              /\ \E p \in Places(content) :
                    /\ TopLevel(content, p)
                    /\ HasId(content, p)
                    /\ symbols[k].kicad_sym_raw = BlockAt(content, p)
        /\ \A p0 \in Places(content) :
              (TopLevel(content, p0) /\ ~HasId(content, p0)) =>
                 /\ \A k \in 1..Len(symbols) :
                       symbols[k].kicad_sym_raw # BlockAt(content, p0)
                 /\ \A p \in CloseOf(content, p0)..(Len(content) - 1) :
                       (TopLevel(content, p) /\ HasId(content, p)) =>
                          /\ IdAt(content, p) \in Keys(symbols)
                          /\ \E r \in p..(Len(content) - 1) :
                                /\ TopLevel(content, r)
                                /\ Get(symbols, IdAt(content, p)).kicad_sym_raw
                                      = BlockAt(content, r)

\* A skipped block that is closed, and a closed block with an identifier
\* after it
C10_Witness ==
    /\ pc = "returned"
    /\ \E p0 \in Places(content) :
          /\ TopLevel(content, p0)
          /\ ~HasId(content, p0)
          /\ Closed(content, p0)
          /\ \E p \in CloseOf(content, p0)..(Len(content) - 1) :
                TopLevel(content, p) /\ HasId(content, p) /\ Closed(content, p)

\* The mappings parse_kicad_sym returns for the files
FileSymbols == [k \in 1..Len(files) |-> parse_kicad_sym(files[k]).symbols]

Merged == pc = "open" /\ nread = Len(files)

\* C5: once every file is merged and before inheritance is resolved, each
\* identifier holds exactly the entry of the last file that defines it.
C5_LastFileWins ==
    Merged =>
        Bind(FileSymbols,
             LAMBDA fs :
                /\ Keys(all_symbols) = UNION {Keys(fs[k]) : k \in 1..Len(fs)}
                /\ \A k \in 1..Len(fs) : \A j \in 1..Len(fs[k]) :
                      (\A later \in (k + 1)..Len(fs) : fs[k][j].id \notin Keys(fs[later]))
                         => Get(all_symbols, fs[k][j].id) = fs[k][j])

\* Two files define the same identifier differently.
C5_Witness ==
    /\ Merged
    /\ Len(files) >= 2
    /\ Bind(FileSymbols,
            LAMBDA fs :
               \E j \in 1..Len(fs[1]) :
                  /\ fs[1][j].id \in Keys(fs[2])
                  /\ Get(fs[2], fs[1][j].id) # fs[1][j]
                  /\ Get(fs[2], fs[1][j].id).pins # fs[1][j].pins)

IdR == <<"R">>
IdRBase == <<"R", "_", "b", "a", "s", "e">>
Ten == [m |-> 10, e |-> 0]
Box10 == [minX |-> Zero, maxX |-> Ten, minY |-> Zero, maxY |-> Ten]
PinOne ==
    [electrical_type |-> <<"p", "a", "s", "s", "i", "v", "e">>,
     x |-> Zero, y |-> [m |-> -5, e |-> 0], orientation |-> Zero,
     name |-> <<"1">>, number |-> <<"1">>]

\* The run is over and R and R_base are the entries of these two blocks.
Resolved(rawR, rawBase) ==
    /\ pc = "done"
    /\ IdR \in Keys(all_symbols)
    /\ IdRBase \in Keys(all_symbols)
    /\ Get(all_symbols, IdR).kicad_sym_raw = rawR
    /\ Get(all_symbols, IdRBase).kicad_sym_raw = rawBase

C8_NeverRaises == pc # "error"

\* The points of the polylines of s: for every polyline, the xy groups of
\* its whole point list, up to the parenthesis that closes (pts.
RECURSIVE PointsFrom(_, _)
PointsFrom(s, p) ==
    IF p >= Len(s) THEN <<>>
    ELSE (IF End(Match(s, p, polyline_head)) >= 0
          THEN XyMatches(Slice(s, Match(s, p, polyline_head)[3],
                               CloseOf(s, Match(s, p, polyline_head)[3])), 0)
          ELSE <<>>) \o PointsFrom(s, p + 1)

\* C9: without a rectangle the bbox is the envelope of every point of every
\* polyline, and is unset only when there is no such point.
C9_PolylineEnvelope ==
    \A k \in 1..Len(symbols) :
        rect_m(symbols[k].kicad_sym_raw) = None =>
            symbols[k].bbox = Envelope(PointsFrom(symbols[k].kicad_sym_raw, 0), 1, None)

Index(id) == CHOOSE k \in 1..Len(all_symbols) : all_symbols[k].id = id
HasBase(k) == all_symbols[k].extends # None /\ all_symbols[k].extends \in Keys(all_symbols)
BaseOf(k) == Index(all_symbols[k].extends)

\* a extends b extends c, three entries of the index
Chain(a, b, c) ==
    /\ a # b /\ b # c /\ a # c
    /\ HasBase(a) /\ BaseOf(a) = b
    /\ HasBase(b) /\ BaseOf(b) = c

\* C3: a call never carries a field over two hops: in a chain a, b, c where
\* only c has the field, a stays without it and b gets it from c.
C3_NoTransitive ==
    [][\A a, b, c \in 1..Len(all_symbols) :
          Chain(a, b, c) =>
             /\ (all_symbols[a].pins = <<>> /\ all_symbols[b].pins = <<>>
                 /\ all_symbols[c].pins # <<>>)
                   => (all_symbols'[a].pins = <<>>
                       /\ all_symbols'[b].pins = all_symbols[c].pins)
             /\ (all_symbols[a].bbox = None /\ all_symbols[b].bbox = None
                 /\ all_symbols[c].bbox # None)
                   => (all_symbols'[a].bbox = None
                       /\ all_symbols'[b].bbox = all_symbols[c].bbox)]_vars

\* C4 as stated: a second call changes nothing, on every index.
C4_Idempotent == [][ncalls = 1 => all_symbols' = all_symbols]_vars

\* No entry's base (an entry other than itself) has a base of its own
\* (other than itself) in the index.
NoChain ==
    \A a \in 1..Len(all_symbols) :
        (HasBase(a) /\ BaseOf(a) # a) =>
            ~(HasBase(BaseOf(a)) /\ BaseOf(BaseOf(a)) # BaseOf(a))

\* C4 amended: a second call changes nothing on an index without a chain of
\* two or more extends.
C4_IdempotentNoChain ==
    [][(ncalls = 1 /\ NoChain) => all_symbols' = all_symbols]_vars

\* Two calls were made on an index without chains and an entry got its pin
\* from its base.
C4_Witness ==
    /\ ncalls = 2
    /\ NoChain
    /\ \E k \in 1..Len(all_symbols) :
          /\ all_symbols[k].pins # <<>>
          /\ all_symbols[k].pins[1].name # all_symbols[k].id

\* C7: a call keeps the keys and every entry's id, extends and raw block,
\* never replaces a non-empty pins list or a set bbox, leaves alone the
\* entries without a base in the index, and a field it fills gets the value
\* of the base's field (as it was before the call or as the call left it).
C7_Frame ==
    [][/\ Len(all_symbols') = Len(all_symbols)
       /\ \A k \in 1..Len(all_symbols) :
             /\ all_symbols'[k].id = all_symbols[k].id
             /\ all_symbols'[k].extends = all_symbols[k].extends
             /\ all_symbols'[k].kicad_sym_raw = all_symbols[k].kicad_sym_raw
             /\ all_symbols[k].pins # <<>> => all_symbols'[k].pins = all_symbols[k].pins
             /\ all_symbols[k].bbox # None => all_symbols'[k].bbox = all_symbols[k].bbox
             /\ ~HasBase(k) => /\ all_symbols'[k].pins = all_symbols[k].pins
                               /\ all_symbols'[k].bbox = all_symbols[k].bbox
             /\ all_symbols'[k].pins # all_symbols[k].pins =>
                   all_symbols'[k].pins \in {all_symbols[BaseOf(k)].pins,
                                             all_symbols'[BaseOf(k)].pins}
             /\ all_symbols'[k].bbox # all_symbols[k].bbox =>
                   all_symbols'[k].bbox \in {all_symbols[BaseOf(k)].bbox,
                                             all_symbols'[BaseOf(k)].bbox}]_vars

\* After a call: an entry that got its pin from its base, an entry whose
\* base is not in the index and is still empty, and an entry with a base in
\* the index that kept its own pin.
C7_Witness ==
    /\ ncalls >= 1
    /\ \E k \in 1..Len(all_symbols) :
          /\ all_symbols[k].pins # <<>>
          /\ all_symbols[k].pins[1].name # all_symbols[k].id
    /\ \E k \in 1..Len(all_symbols) :
          /\ all_symbols[k].extends # None
          /\ ~HasBase(k)
          /\ all_symbols[k].pins = <<>>
          /\ all_symbols[k].bbox = None
    /\ \E k \in 1..Len(all_symbols) :
          /\ HasBase(k)
          /\ BaseOf(k) # k
          /\ all_symbols[BaseOf(k)].pins # <<>>
          /\ all_symbols[k].pins # <<>>
          /\ all_symbols[k].pins[1].name = all_symbols[k].id

====
